---- MODULE Spec2Model ----
(***************************************************************************)
(* ArtVector backend (src/backend/app.py, src/backend/embedding.py): the   *)
(* SQLite store of datasets and objects, the CSV ingestion endpoint, the   *)
(* incremental embedding endpoint process_batch, and the readers           *)
(* job_status and search_text.  Every request handler opens its own        *)
(* connection (get_db); Python's sqlite3 module runs SELECTs in autocommit *)
(* and opens an implicit transaction before the first INSERT/UPDATE, which *)
(* lasts until conn.commit().  Handlers are modelled statement by          *)
(* statement so that overlapping requests interleave as they can in the    *)
(* threadpool.                                                             *)
(*                                                                         *)
(* Text is modelled as a sequence of one-character strings.                *)
(***************************************************************************)
EXTENDS Integers, Sequences, FiniteSets, TLC

\* ------------------------------------------------------------------ bounds
MaxObjects == 3     \* rows the objects table may hold
MaxCalls == 3       \* process_batch calls counted in one series of calls
MaxBatch == 2       \* largest batch_size a caller passes

\* ------------------------------------------------------- program constants
EMBEDDING_DIM == 384

\* ---------------------------------------------------------- text helpers
None == <<"None">>

\* Python truthiness of an optional string: None and "" are false.
Truthy(v) == v # None /\ v # <<>>

\* Python `a or b`.
Or(a, b) == IF Truthy(a) THEN a ELSE b

\* dict.get(key): None when the key is absent.
Get(row, key) == IF key \in DOMAIN row THEN row[key] ELSE None

RECURSIVE Join(_, _)
\* sep.join(parts)
Join(sep, parts) ==
    IF parts = <<>> THEN <<>>
    ELSE IF Len(parts) = 1 THEN parts[1]
    ELSE parts[1] \o sep \o Join(sep, Tail(parts))

Digit(n) == <<"0", "1", "2", "3", "4", "5", "6", "7", "8", "9">>[n + 1]

RECURSIVE IntToStr(_)
\* str(n) for n >= 0
IntToStr(n) == IF n < 10 THEN <<Digit(n)>> ELSE IntToStr(n \div 10) \o <<Digit(n % 10)>>

LowerChar(c) == IF c = "A" THEN "a" ELSE IF c = "B" THEN "b" ELSE c

\* name.lower().replace(' ', '_')
NormalizeName(name) ==
    [i \in 1..Len(name) |-> IF name[i] = " " THEN "_" ELSE LowerChar(name[i])]

\* --------------------------------------------------------- CSV input
\* Column order of the uploaded file (csv.DictReader.fieldnames); a row is a
\* dict from these columns to strings.
Header == <<"ObjectID", "Title", "Notes", "ImageURL">>

RowTitled == [ObjectID |-> <<"7">>, Title |-> <<"a">>, Notes |-> <<>>, ImageURL |-> <<"u">>]

RowBlank == [ObjectID |-> <<>>, Title |-> <<>>, Notes |-> <<>>, ImageURL |-> <<>>]

RowSpace == [ObjectID |-> <<>>, Title |-> <<>>, Notes |-> <<" ">>, ImageURL |-> <<>>]

RowChoices == {RowTitled, RowBlank, RowSpace}

\* Uploaded files: a header and up to two data rows.
FileLengths == {0, 1, 2}

Files == UNION {[1..n -> RowChoices] : n \in FileLengths}

Names == {<<"a">>, <<"B", " ">>}

\* int(time.time()) when register_dataset runs: the uploads of one behaviour
\* fall into the same second.
Times == {1}

BatchSizes == 1..MaxBatch

\* search_text's q: the empty string, three spaces, a word.
Queries == {<<>>, <<" ", " ", " ">>, <<"a">>}

\* search_text's limit: any integer passes FastAPI's validation.
Limits == {-1, 0, 1, 2}

\* ------------------------------------------------------------ the store
NULL == [null |-> TRUE, dim |-> 0, text |-> <<>>]

IsNull(e) == e.null

Workers == {"w1", "w2"}

\* search_text handlers that may run at the same time.
Searchers == {"s1", "s2"}

VARIABLES
    objects,    \* committed rows of table objects, in id order (id = index)
    datasets,   \* committed rows of table datasets
    lock,       \* connection holding SQLite's write lock, or "none"
    up,         \* upload_dataset handler: position and locals
    proc,       \* process_batch handlers: position and locals per worker
    js,         \* job_status handler: position and locals
    st,         \* search_text handlers: position and locals per searcher
    writes,     \* history: per object id, the handlers whose UPDATE of its embedding committed
    run,        \* history: the current uninterrupted series of process_batch(b) calls
    before,     \* history: the committed objects table when the invocation in flight began
    ls,         \* all_datasets / all_objects: the last listing answered
    api         \* frontend: the api_get call in flight, its position and locals

vars == <<objects, datasets, lock, up, proc, js, st, writes, run, before, ls, api>>

\* The program's own state; run and before are kept by the observers below.
prog == <<objects, datasets, lock, up, proc, js, st, writes>>

\* The listing endpoints' answer and the frontend's call, which the upload,
\* batch, status and search handlers never touch.
rest == <<ls, api>>

\* ------------------------------------------------------------ queries
Ids(objs) == 1..Len(objs)

RECURSIVE SetToSeq(_)
\* ORDER BY id ASC over a set of ids
SetToSeq(S) ==
    IF S = {} THEN <<>>
    ELSE LET m == CHOOSE x \in S : \A y \in S : x <= y
         IN <<m>> \o SetToSeq(S \ {m})

\* Variant: the batch SELECT without its WHERE embedding IS NULL.
PendingIds_NoFilter(objs) == SetToSeq(Ids(objs))

\* SELECT ... WHERE embedding IS NULL ORDER BY id ASC
PendingIds(objs) == SetToSeq({i \in Ids(objs) : IsNull(objs[i].embedding)})

\* SELECT COUNT(*) FROM objects WHERE embedding IS NULL
CountPending(objs) == Cardinality({i \in Ids(objs) : IsNull(objs[i].embedding)})

\* SELECT COUNT(*) FROM objects
CountAll(objs) == Len(objs)

\* Variant: LIMIT n + 1.
Limit_OffByOne(s, n) == IF n + 1 >= Len(s) THEN s ELSE SubSeq(s, 1, n + 1)

\* LIMIT n: a negative n means no limit in SQLite.
Limit(s, n) == IF n < 0 \/ n >= Len(s) THEN s ELSE SubSeq(s, 1, n)

Min(a, b) == IF a <= b THEN a ELSE b

Max(a, b) == IF a >= b THEN a ELSE b

\* ------------------------------------------------------- helper functions
\* register_dataset's identifier: f"{name.lower().replace(' ', '_')}_{int(time.time())}"
DatasetId(name, t) == NormalizeName(name) \o <<"_">> \o IntToStr(t)

build_object_uid(dataset_id, original_id) == dataset_id \o <<"_", "_">> \o original_id

PriorityKeys ==
    <<"Title", "ObjectName", "Artist", "Maker", "Culture", "Medium",
      "Classification", "Department">>

\* row.values() in column order
Values(row) == [i \in 1..Len(Header) |-> row[Header[i]]]

build_object_text(row) ==
    LET found == SelectSeq([i \in 1..Len(PriorityKeys) |-> Get(row, PriorityKeys[i])], Truthy)
        parts == IF found = <<>>
                 THEN <<Join(<<" ">>, SelectSeq(Values(row), Truthy))>>
                 ELSE found
    IN Join(<<" ", "|", " ">>, parts)

\* The model's output for a list of texts: one vector per text, all of the
\* width d of the returned tensor.  A vector is represented by its width and
\* the text it encodes.
embed_texts(texts, d) ==
    [i \in 1..Len(texts) |-> [null |-> FALSE, dim |-> d, text |-> texts[i]]]

\* Widths the external model may return.
ModelDims == {EMBEDDING_DIM, EMBEDDING_DIM - 1}

\* ------------------------------------------------------------- initial state
NoResp ==
    [kind |-> "none", at |-> "idle", embedded_this_batch |-> 0, remaining |-> 0,
     total |-> 0, done |-> FALSE]

\* landed (the ids whose UPDATE by this invocation other connections can see)
\* is history.
IdleProc ==
    [pc |-> "idle", batch_size |-> 0, remaining |-> 0, rows |-> <<>>,
     embeddings |-> <<>>, i |-> 0, tx |-> <<>>, total |-> 0,
     landed |-> {}, resp |-> NoResp]

IdleUp ==
    [pc |-> "idle", dataset_id |-> <<>>, file |-> <<>>, tx |-> <<>>, num_objects |-> 0]

IdleJs ==
    [pc |-> "idle", total |-> 0,
     resp |-> [kind |-> "none", total |-> 0, embedded |-> 0, remaining |-> 0, percent |-> 0]]

\* What a search_text request answered: kind is "ok" (a list), "invalid"
\* (HTTP 400) or "error" (an exception, HTTP 500).  q, limit, read (the SELECT
\* ran) and scored (the rows the scores were computed for) are history.
NoResult ==
    [kind |-> "none", at |-> "idle", q |-> <<>>, limit |-> 0, read |-> FALSE,
     scored |-> <<>>, results |-> <<>>]

\* seen and start (the ids embedded in the request's scope when the handler
\* was entered) are history.
IdleSt ==
    [pc |-> "idle", q |-> <<>>, limit |-> 0, dataset_id |-> None, images_only |-> FALSE,
     rows |-> <<>>, seen |-> [w \in Workers |-> [landed |-> {}, batch |-> {}]],
     start |-> {}, resp |-> NoResult]

NoRun == [active |-> FALSE, N |-> 0, b |-> 0, i |-> 0]

NoListing == [kind |-> "none", rows |-> <<>>]

\* api_get's locals: t (the timeout in use), retries, attempt (the loop
\* variable); out is how the call ended: "json" (the body returned), the
\* exception raised, or "None" (the loop ran out).  log (the outcome of each
\* GET sent) and slept (the delays waited, in tenths of a second) are history.
IdleApi ==
    [pc |-> "idle", path |-> "", t |-> 0, retries |-> 0, attempt |-> 0,
     log |-> <<>>, slept |-> <<>>, out |-> "none"]

Init ==
    /\ objects = <<>>
    /\ datasets = <<>>
    /\ lock = "none"
    /\ up = IdleUp
    /\ proc = [w \in Workers |-> IdleProc]
    /\ js = IdleJs
    /\ st = [s \in Searchers |-> IdleSt]
    /\ writes = <<>>
    /\ run = NoRun
    /\ before = <<>>
    /\ ls = NoListing
    /\ api = IdleApi

\* No request handler is in flight.
AllIdle ==
    /\ up.pc = "idle" /\ js.pc = "idle"
    /\ \A w \in Workers : proc[w].pc = "idle"
    /\ \A s \in Searchers : st[s].pc = "idle"


\* ----------------------------------------------------------- upload_dataset
\* original_id of the k-th data row (num_objects = k - 1 rows precede it).
OriginalId(row, k) == Or(Or(Get(row, "ObjectID"), Get(row, "id")), IntToStr(k))

ImageUrl(row) == Or(Or(Or(Get(row, "ImageURL"), Get(row, "PrimaryImage")), Get(row, "Image")), None)

NewObject(row, k, dataset_id) ==
    [object_uid |-> build_object_uid(dataset_id, OriginalId(row, k)),
     dataset_id |-> dataset_id,
     original_id |-> OriginalId(row, k),
     has_image |-> IF Truthy(ImageUrl(row)) THEN 1 ELSE 0,
     raw_metadata |-> row,
     embedding |-> NULL]

Uids(objs) == {objs[i].object_uid : i \in 1..Len(objs)}

RECURSIVE InsertRows(_, _, _, _, _)
\* The for-loop of upload_dataset: INSERT OR IGNORE each row from the k-th on;
\* a row whose object_uid is already present (committed, or inserted earlier
\* in this transaction) is ignored.  tx is the sequence of rows inserted.
InsertRows(file, k, dataset_id, objs, tx) ==
    IF k > Len(file) THEN tx
    ELSE LET o == NewObject(file[k], k, dataset_id)
         IN IF o.object_uid \in Uids(objs) \cup Uids(tx)
            THEN InsertRows(file, k + 1, dataset_id, objs, tx)
            ELSE InsertRows(file, k + 1, dataset_id, objs, Append(tx, o))

DatasetIds == {datasets[i].dataset_id : i \in 1..Len(datasets)}

\* register_dataset: INSERT INTO datasets + commit on its own connection.
register_dataset(name, t, file) ==
    /\ up.pc = "idle"
    /\ Len(objects) + Len(file) <= MaxObjects
    /\ lock = "none"
    /\ DatasetId(name, t) \notin DatasetIds
    /\ datasets' = Append(datasets,
                          [dataset_id |-> DatasetId(name, t), name |-> name, num_objects |-> 0])
    /\ up' = [IdleUp EXCEPT !.pc = "insert", !.dataset_id = DatasetId(name, t), !.file = file]
    /\ UNCHANGED <<objects, lock, proc, js, st, writes>>

\* register_dataset when dataset_id is taken: the UNIQUE constraint raises
\* IntegrityError and the request fails before any object is inserted.
register_dataset_conflict(name, t) ==
    /\ up.pc = "idle"
    /\ lock = "none"
    /\ DatasetId(name, t) \in DatasetIds
    /\ UNCHANGED prog

\* The INSERT loop and the UPDATE of datasets.num_objects, inside the implicit
\* transaction opened by the first write.
upload_dataset_insert ==
    /\ up.pc = "insert"
    /\ lock = "none"
    /\ lock' = "upload"
    /\ up' = [up EXCEPT !.pc = "commit",
                        !.tx = InsertRows(up.file, 1, up.dataset_id, objects, <<>>),
                        !.num_objects = Len(up.file)]
    /\ UNCHANGED <<objects, datasets, proc, js, st, writes>>

\* A write while another connection holds the write lock: after the busy
\* timeout sqlite3 raises OperationalError (database is locked).
upload_dataset_busy ==
    /\ up.pc = "insert"
    /\ lock # "none"
    /\ up' = IdleUp
    /\ UNCHANGED <<objects, datasets, lock, proc, js, st, writes>>

upload_dataset_commit ==
    /\ up.pc = "commit"
    /\ objects' = objects \o up.tx
    /\ writes' = writes \o [i \in 1..Len(up.tx) |-> <<>>]
    /\ datasets' = [i \in 1..Len(datasets) |->
                      IF datasets[i].dataset_id = up.dataset_id
                      THEN [datasets[i] EXCEPT !.num_objects = up.num_objects]
                      ELSE datasets[i]]
    /\ lock' = "none"
    /\ up' = IdleUp
    /\ UNCHANGED <<proc, js, st>>

\* ------------------------------------------------------------ process_batch
\* The pairs zip(ids, embeddings) walks.
Pairs(p) == Min(Len(p.rows), Len(p.embeddings))

RowIds(rows) == {rows[k].id : k \in 1..Len(rows)}

\* The handler is left by an exception: locals are dropped, the connection is
\* discarded with whatever it had not committed.
Abort(kind, at) == [IdleProc EXCEPT !.resp = [NoResp EXCEPT !.kind = kind, !.at = at]]

\* Variant: no early return when nothing is pending.
process_batch_count_NoEarlyReturn(w, b) ==
    /\ proc[w].pc = "idle"
    /\ proc' = [proc EXCEPT ![w] =
                  [IdleProc EXCEPT !.pc = "select", !.batch_size = b,
                                   !.remaining = CountPending(objects),
                                   !.resp = proc[w].resp]]
    /\ UNCHANGED <<objects, datasets, lock, up, js, st, writes>>

\* "How many remain?" and the early return when nothing is pending.
process_batch_count(w, b) ==
    /\ proc[w].pc = "idle"
    /\ LET remaining == CountPending(objects)
       IN proc' = [proc EXCEPT ![w] =
                IF remaining = 0
                THEN [IdleProc EXCEPT !.resp =
                        [NoResp EXCEPT !.kind = "ok", !.at = "count", !.done = TRUE]]
                ELSE [IdleProc EXCEPT !.pc = "select", !.batch_size = b,
                                      !.remaining = remaining,
                                      !.resp = proc[w].resp]]
    /\ UNCHANGED <<objects, datasets, lock, up, js, st, writes>>

\* "Select batch": the pending rows in id order, at most batch_size of them.
process_batch_select(w) ==
    /\ proc[w].pc = "select"
    /\ LET ids == Limit(PendingIds(objects), proc[w].batch_size)
       IN proc' = [proc EXCEPT ![w].pc = "embed",
                               ![w].rows = [k \in 1..Len(ids) |->
                                   [id |-> ids[k], raw_metadata |-> objects[ids[k]].raw_metadata]]]
    /\ UNCHANGED <<objects, datasets, lock, up, js, st, writes>>

\* texts = [build_object_text(m) ...]; embeddings = embed_texts(texts): the
\* model answers with a tensor of width d.
process_batch_embed(w, d) ==
    /\ proc[w].pc = "embed"
    /\ LET texts == [k \in 1..Len(proc[w].rows) |-> build_object_text(proc[w].rows[k].raw_metadata)]
       IN proc' = [proc EXCEPT ![w].pc = "update", ![w].i = 1,
                               ![w].embeddings = embed_texts(texts, d)]
    /\ UNCHANGED <<objects, datasets, lock, up, js, st, writes>>

\* Variant: on a model failure the selected rows get a placeholder vector.
process_batch_embed_fail_Writes(w) ==
    /\ proc[w].pc = "embed"
    /\ objects' = [id \in 1..Len(objects) |->
                     IF id \in RowIds(proc[w].rows)
                     THEN [objects[id] EXCEPT !.embedding = [null |-> FALSE, dim |-> 0, text |-> <<>>]]
                     ELSE objects[id]]
    /\ writes' = [id \in 1..Len(writes) |->
                    IF id \in RowIds(proc[w].rows) THEN Append(writes[id], w) ELSE writes[id]]
    /\ proc' = [proc EXCEPT ![w] = Abort("error", "embed")]
    /\ UNCHANGED <<datasets, lock, up, js, st>>

\* embed_texts raises: the exception leaves process_batch before any UPDATE.
process_batch_embed_fail(w) ==
    /\ proc[w].pc = "embed"
    /\ proc' = [proc EXCEPT ![w] = Abort("error", "embed")]
    /\ UNCHANGED <<objects, datasets, lock, up, js, st, writes>>

\* Variant: the UPDATE has no WHERE id = ?, every row takes the vector.
ApplyTx_NoWhere(objs, tx) ==
    IF tx = <<>> THEN objs
    ELSE [i \in 1..Len(objs) |-> [objs[i] EXCEPT !.embedding = tx[Len(tx)].vec]]

RECURSIVE ApplyTx(_, _)
\* The committed table after the transaction's UPDATEs, in statement order.
ApplyTx(objs, tx) ==
    IF tx = <<>> THEN objs
    ELSE ApplyTx([objs EXCEPT ![Head(tx).id].embedding = Head(tx).vec], Tail(tx))

TxIds(tx) == {tx[k].id : k \in 1..Len(tx)}

\* Variant: the connection is in autocommit mode, every UPDATE is visible at once.
process_batch_update_Autocommit(w) ==
    /\ proc[w].pc = "update"
    /\ proc[w].i <= Pairs(proc[w])
    /\ lock \in {"none", w}
    /\ LET id == proc[w].rows[proc[w].i].id
       IN /\ objects' = [objects EXCEPT ![id].embedding = proc[w].embeddings[proc[w].i]]
          /\ writes' = [writes EXCEPT ![id] = Append(writes[id], w)]
          /\ proc' = [proc EXCEPT ![w].i = proc[w].i + 1,
                                  ![w].landed = proc[w].landed \cup {id}]
    /\ UNCHANGED <<datasets, lock, up, js, st>>

\* One UPDATE objects SET embedding = ? WHERE id = ?, inside the connection's
\* implicit transaction (the first one takes the write lock); the new value is
\* not visible to other connections before the commit.
process_batch_update(w) ==
    /\ proc[w].pc = "update"
    /\ proc[w].i <= Pairs(proc[w])
    /\ lock \in {"none", w}
    /\ lock' = w
    /\ proc' = [proc EXCEPT ![w].i = proc[w].i + 1,
                            ![w].tx = Append(proc[w].tx,
                                [id |-> proc[w].rows[proc[w].i].id,
                                 vec |-> proc[w].embeddings[proc[w].i]])]
    /\ UNCHANGED <<objects, datasets, up, js, st, writes>>

\* The first UPDATE finds the write lock held by another connection for longer
\* than the busy timeout: OperationalError (database is locked).
process_batch_busy(w) ==
    /\ proc[w].pc = "update"
    /\ proc[w].i <= Pairs(proc[w])
    /\ lock \notin {"none", w}
    /\ proc' = [proc EXCEPT ![w] = Abort("error", "update")]
    /\ UNCHANGED <<objects, datasets, lock, up, js, st, writes>>

\* Variant: conn.commit() is missing, the connection is dropped and its
\* transaction rolled back.
process_batch_commit_Rollback(w) ==
    /\ proc[w].pc = "update"
    /\ proc[w].i > Pairs(proc[w])
    /\ lock' = IF lock = w THEN "none" ELSE lock
    /\ proc' = [proc EXCEPT ![w].pc = "total", ![w].tx = <<>>]
    /\ UNCHANGED <<objects, datasets, up, js, st, writes>>

\* conn.commit(): all UPDATEs of the invocation become visible at once.
process_batch_commit(w) ==
    /\ proc[w].pc = "update"
    /\ proc[w].i > Pairs(proc[w])
    /\ objects' = ApplyTx(objects, proc[w].tx)
    /\ writes' = [id \in 1..Len(writes) |->
                    IF id \in TxIds(proc[w].tx) THEN Append(writes[id], w) ELSE writes[id]]
    /\ lock' = IF lock = w THEN "none" ELSE lock
    /\ proc' = [proc EXCEPT ![w].pc = "total", ![w].tx = <<>>,
                            ![w].landed = TxIds(proc[w].tx)]
    /\ UNCHANGED <<datasets, up, js, st>>

\* "Recompute totals", first query.
process_batch_total(w) ==
    /\ proc[w].pc = "total"
    /\ proc' = [proc EXCEPT ![w].pc = "remaining", ![w].total = CountAll(objects)]
    /\ UNCHANGED <<objects, datasets, lock, up, js, st, writes>>

\* "Recompute totals", second query, and the response.
process_batch_return(w) ==
    /\ proc[w].pc = "remaining"
    /\ LET remaining_after == CountPending(objects)
       IN proc' = [proc EXCEPT ![w] = [IdleProc EXCEPT !.resp =
                    [kind |-> "ok", at |-> "return",
                     embedded_this_batch |-> Len(proc[w].rows),
                     remaining |-> remaining_after,
                     total |-> proc[w].total,
                     done |-> (remaining_after = 0)]]]
    /\ UNCHANGED <<objects, datasets, lock, up, js, st, writes>>

\* --------------------------------------------------------------- job_status
job_status_total ==
    /\ js.pc = "idle"
    /\ js' = [js EXCEPT !.pc = "remaining", !.total = CountAll(objects)]
    /\ UNCHANGED <<objects, datasets, lock, up, proc, st, writes>>

\* Variant: embedded comes from a third COUNT query at response time.
Embedded_Recount(total, remaining) == CountAll(objects) - CountPending(objects)

\* embedded = total - remaining
Embedded(total, remaining) == total - remaining

\* float(embedded) / float(total) * 100.0, rounded down to an integer
Percent(embedded, total) == IF total > 0 THEN (embedded * 100) \div total ELSE 0

job_status_return ==
    /\ js.pc = "remaining"
    /\ LET remaining == CountPending(objects)
           embedded == Embedded(js.total, remaining)
       IN js' = [pc |-> "idle", total |-> 0,
                 resp |-> [kind |-> "ok", total |-> js.total, embedded |-> embedded,
                           remaining |-> remaining, percent |-> Percent(embedded, js.total)]]
    /\ UNCHANGED <<objects, datasets, lock, up, proc, st, writes>>

\* -------------------------------------------------------------- search_text
\* Variant: the dataset_id filter is never appended.
ScopeIds_AnyDataset(objs, dataset_id, images_only) ==
    {i \in Ids(objs) :
        /\ ~IsNull(objs[i].embedding)
        /\ (images_only => objs[i].has_image = 1)}

\* SELECT * FROM objects WHERE embedding IS NOT NULL [AND dataset_id = ?]
\* [AND has_image = 1]: the ids of the rows it returns.  A falsy dataset_id
\* adds no filter.
ScopeIds(objs, dataset_id, images_only) ==
    {i \in Ids(objs) :
        /\ ~IsNull(objs[i].embedding)
        /\ (Truthy(dataset_id) => objs[i].dataset_id = dataset_id)
        /\ (images_only => objs[i].has_image = 1)}

\* The external model's geometry, in hundredths: the cosine of two normalised
\* vectors is 1 when they encode the same text; texts that differ score lower,
\* a text sharing its first character with the query above one that does not.
Similarity(t1, t2) ==
    IF t1 = t2 THEN 100
    ELSE IF t1 # <<>> /\ t2 # <<>> /\ Head(t1) = Head(t2) THEN 50
    ELSE 0

\* torch.matmul(obj_tensor, query_emb): one score per row.
Scores(rows, query_emb) ==
    [k \in 1..Len(rows) |->
        [id |-> rows[k].id, score |-> Similarity(rows[k].vec.text, query_emb.text)]]

\* scores.argsort(descending=True): a permutation of the row positions along
\* which the scores do not increase.  stable is left at its default, so the
\* order of equal scores is whichever the sort produces.
Argsorts(scores) ==
    {p \in [1..Len(scores) -> 1..Len(scores)] :
        /\ \A i, j \in 1..Len(scores) : i # j => p[i] # p[j]
        /\ \A i, j \in 1..Len(scores) : i < j => scores[p[i]].score >= scores[p[j]].score}

\* Python's s[:k]: the first k elements, and for a negative k all but the
\* last -k.
Slice(s, k) ==
    IF k >= 0 THEN SubSeq(s, 1, Min(k, Len(s))) ELSE SubSeq(s, 1, Max(0, Len(s) + k))

\* All rows' vectors have the width of the first (torch.tensor refuses a
\* ragged list).
Stackable(rows) == \A k \in 1..Len(rows) : rows[k].vec.dim = rows[1].vec.dim

\* `if not q`: HTTP 400 before a connection is opened.
search_text_invalid(s, q, limit) ==
    /\ st[s].pc = "idle"
    /\ ~Truthy(q)
    /\ st' = [st EXCEPT ![s] = [IdleSt EXCEPT !.resp =
                [NoResult EXCEPT !.kind = "invalid", !.at = "query", !.q = q, !.limit = limit]]]
    /\ UNCHANGED <<objects, datasets, lock, up, proc, js, writes>>

\* The query passes `if not q` and the handler opens its connection.
search_text_begin(s, q, limit, dataset_id, images_only) ==
    /\ st[s].pc = "idle"
    /\ Truthy(q)
    /\ st' = [st EXCEPT ![s] =
                [IdleSt EXCEPT !.pc = "select", !.q = q, !.limit = limit,
                               !.dataset_id = dataset_id, !.images_only = images_only,
                               !.start = ScopeIds(objects, dataset_id, images_only)]]
    /\ UNCHANGED <<objects, datasets, lock, up, proc, js, writes>>

\* Variant: the rows come from a projection built when the handler was entered.
search_text_select_Stale(s) ==
    /\ st[s].pc = "select"
    /\ LET ids == SetToSeq(st[s].start)
           rows == [k \in 1..Len(ids) |-> [id |-> ids[k], vec |-> objects[ids[k]].embedding]]
       IN st' = [st EXCEPT ![s] =
                   IF rows = <<>>
                   THEN [IdleSt EXCEPT !.resp =
                           [NoResult EXCEPT !.kind = "ok", !.at = "rows", !.q = st[s].q,
                                            !.limit = st[s].limit, !.read = TRUE]]
                   ELSE [st[s] EXCEPT !.pc = "stack", !.rows = rows]]
    /\ UNCHANGED <<objects, datasets, lock, up, proc, js, writes>>

\* The only store access of search_text, one SELECT on the handler's own
\* connection, and `if not rows: return []`.  seen records, for each
\* process_batch handler in flight, which of its UPDATEs the statement's
\* snapshot contained.
search_text_select(s) ==
    /\ st[s].pc = "select"
    /\ LET ids == SetToSeq(ScopeIds(objects, st[s].dataset_id, st[s].images_only))
           rows == [k \in 1..Len(ids) |-> [id |-> ids[k], vec |-> objects[ids[k]].embedding]]
           seen == [w \in Workers |->
                      [landed |-> proc[w].landed,
                       batch |-> IF proc[w].pc \in {"update", "total", "remaining"}
                                 THEN {proc[w].rows[k].id : k \in 1..Pairs(proc[w])}
                                 ELSE {}]]
       IN st' = [st EXCEPT ![s] =
                   IF rows = <<>>
                   THEN [IdleSt EXCEPT !.seen = seen, !.resp =
                           [NoResult EXCEPT !.kind = "ok", !.at = "rows", !.q = st[s].q,
                                            !.limit = st[s].limit, !.read = TRUE]]
                   ELSE [st[s] EXCEPT !.pc = "stack", !.rows = rows, !.seen = seen]]
    /\ UNCHANGED <<objects, datasets, lock, up, proc, js, writes>>

\* The loop over rows and torch.tensor(obj_vecs): the fetched vectors are
\* stacked into one matrix.
search_text_stack(s) ==
    /\ st[s].pc = "stack"
    /\ Stackable(st[s].rows)
    /\ st' = [st EXCEPT ![s].pc = "embed"]
    /\ UNCHANGED <<objects, datasets, lock, up, proc, js, writes>>

\* The error a search_text request ends with after its SELECT.
SearchError(s, at) ==
    [IdleSt EXCEPT !.seen = st[s].seen, !.resp =
        [NoResult EXCEPT !.kind = "error", !.at = at, !.q = st[s].q,
                         !.limit = st[s].limit, !.read = TRUE]]

\* torch.tensor raises on vectors of different widths.
search_text_stack_fail(s) ==
    /\ st[s].pc = "stack"
    /\ ~Stackable(st[s].rows)
    /\ st' = [st EXCEPT ![s] = SearchError(s, "stack")]
    /\ UNCHANGED <<objects, datasets, lock, up, proc, js, writes>>

\* Variant: the failure of embed_texts([q]) is caught and an empty list returned.
search_text_embed_fail_ReturnsEmpty(s) ==
    /\ st[s].pc = "embed"
    /\ st' = [st EXCEPT ![s] = [IdleSt EXCEPT !.seen = st[s].seen, !.resp =
                [NoResult EXCEPT !.kind = "ok", !.at = "embed", !.q = st[s].q,
                                 !.limit = st[s].limit, !.read = TRUE]]]
    /\ UNCHANGED <<objects, datasets, lock, up, proc, js, writes>>

\* embed_texts([q]) raises: the exception leaves search_text.
search_text_embed_fail(s) ==
    /\ st[s].pc = "embed"
    /\ st' = [st EXCEPT ![s] = SearchError(s, "embed")]
    /\ UNCHANGED <<objects, datasets, lock, up, proc, js, writes>>

\* The query vector has another width than the stacked rows: torch.matmul
\* raises.
search_text_score_fail(s, d) ==
    /\ st[s].pc = "embed"
    /\ d # st[s].rows[1].vec.dim
    /\ st' = [st EXCEPT ![s] = SearchError(s, "score")]
    /\ UNCHANGED <<objects, datasets, lock, up, proc, js, writes>>

\* The query is embedded (a vector of width d), the scores are computed and
\* sorted, and the first `limit` positions of the sort are returned.
search_text_return(s, d) ==
    /\ st[s].pc = "embed"
    /\ d = st[s].rows[1].vec.dim
    /\ LET query_emb == embed_texts(<<st[s].q>>, d)[1]
           scores == Scores(st[s].rows, query_emb)
       IN \E indices \in Argsorts(scores) :
            st' = [st EXCEPT ![s] = [IdleSt EXCEPT !.seen = st[s].seen, !.resp =
                     [kind |-> "ok", at |-> "return", q |-> st[s].q, limit |-> st[s].limit,
                      read |-> TRUE, scored |-> scores,
                      results |-> [k \in 1..Len(Slice(indices, st[s].limit)) |->
                                      scores[Slice(indices, st[s].limit)[k]]]]]]
    /\ UNCHANGED <<objects, datasets, lock, up, proc, js, writes>>

\* --------------------------------------------------------- process crash
\* ------------------------------------------------- all_datasets, all_objects
Reverse(s) == [k \in 1..Len(s) |-> s[Len(s) + 1 - k]]

\* all_datasets: SELECT * FROM datasets ORDER BY created_at DESC, read-only;
\* datasets holds the rows in the order they were created.
all_datasets ==
    /\ ls' = [kind |-> "datasets", rows |-> Reverse(datasets)]
    /\ UNCHANGED <<prog, api>>

\* The ObjectOut built from a row: the stored columns without the embedding.
ObjectOut(o) ==
    [object_uid |-> o.object_uid, dataset_id |-> o.dataset_id,
     original_id |-> o.original_id, has_image |-> (o.has_image # 0),
     raw_metadata |-> o.raw_metadata]

\* The ids all_objects reads: WHERE dataset_id = ? only `if dataset_id`,
\* ORDER BY id DESC LIMIT ?.
ListedIds(objs, dataset_id, limit) ==
    Limit(Reverse(SetToSeq({i \in Ids(objs) :
              Truthy(dataset_id) => objs[i].dataset_id = dataset_id})), limit)

\* all_objects: one SELECT, read-only.
all_objects(dataset_id, limit) ==
    /\ LET ids == ListedIds(objects, dataset_id, limit)
       IN ls' = [kind |-> "objects", rows |-> [k \in 1..Len(ids) |-> ObjectOut(objects[ids[k]])]]
    /\ UNCHANGED <<prog, api>>

\* ------------------------------------------------------ frontend: api_get
MaxRetries == 2

\* backoff's default, 0.8 s, in tenths of a second
BackoffTenths == 8

Paths == {"/search_text", "/all_datasets", "/job_status"}

\* The timeout argument in seconds; 0 stands for the falsy values None and 0.
Timeouts == {0, 10}

Retries == 0..MaxRetries

\* API_TIMEOUTS.get(path, 30)
API_TIMEOUTS(path) ==
    CASE path = "/search_text" -> 180
      [] path = "/warmup" -> 120
      [] path = "/all_objects" -> 120
      [] path = "/all_datasets" -> 30
      [] OTHER -> 30

\* The exceptions the first except clause catches.
Retryable == {"ReadTimeout", "ConnectionError"}

\* api_get is entered: t = timeout or API_TIMEOUTS.get(path, 30); an empty
\* range(retries + 1) falls through the loop and the function returns None.
api_get(path, timeout, retries) ==
    /\ api.pc = "idle"
    /\ api' = [IdleApi EXCEPT !.pc = IF retries + 1 > 0 THEN "request" ELSE "idle",
                              !.path = path,
                              !.t = IF timeout # 0 THEN timeout ELSE API_TIMEOUTS(path),
                              !.retries = retries,
                              !.out = IF retries + 1 > 0 THEN "none" ELSE "None"]
    /\ UNCHANGED <<prog, ls>>

\* requests.get answers with a 2xx status and r.json() parses: return.
api_get_return ==
    /\ api.pc = "request"
    /\ api' = [api EXCEPT !.pc = "idle", !.log = Append(api.log, "json"), !.out = "json"]
    /\ UNCHANGED <<prog, ls>>

\* Variant: the test before the sleep is attempt <= retries.
api_get_retry_OneMore(e) ==
    /\ api.pc = "request"
    /\ api' = IF api.attempt <= api.retries
              THEN [api EXCEPT !.log = Append(api.log, e),
                               !.slept = Append(api.slept, BackoffTenths * 2^api.attempt),
                               !.attempt = api.attempt + 1]
              ELSE [api EXCEPT !.pc = "idle", !.log = Append(api.log, e), !.out = e]
    /\ UNCHANGED <<prog, ls>>

\* requests.get raises ReadTimeout or ConnectionError: sleep
\* backoff * 2 ** attempt and go round again while attempt < retries,
\* otherwise re-raise.
api_get_retry(e) ==
    /\ api.pc = "request"
    /\ api' = IF api.attempt < api.retries
              THEN [api EXCEPT !.log = Append(api.log, e),
                               !.slept = Append(api.slept, BackoffTenths * 2^api.attempt),
                               !.attempt = api.attempt + 1]
              ELSE [api EXCEPT !.pc = "idle", !.log = Append(api.log, e), !.out = e]
    /\ UNCHANGED <<prog, ls>>

\* raise_for_status() raises HTTPError (a 4xx or 5xx answer): re-raised.
api_get_http_error ==
    /\ api.pc = "request"
    /\ api' = [api EXCEPT !.pc = "idle", !.log = Append(api.log, "HTTPError"),
                          !.out = "HTTPError"]
    /\ UNCHANGED <<prog, ls>>

\* Any other exception of requests.get or r.json() (too many redirects, a
\* body that is not JSON) is caught by neither clause and leaves the function.
api_get_uncaught ==
    /\ api.pc = "request"
    /\ api' = [api EXCEPT !.pc = "idle", !.log = Append(api.log, "other"), !.out = "other"]
    /\ UNCHANGED <<prog, ls>>

\* The server process dies: every handler in flight is lost with its locals,
\* SQLite rolls back the transactions that had not committed and the write
\* lock is released.  The committed tables are what a restart finds.
Crash ==
    /\ ~AllIdle
    /\ proc' = [w \in Workers |->
                  IF proc[w].pc = "idle" THEN proc[w] ELSE Abort("crashed", proc[w].pc)]
    /\ up' = IdleUp
    /\ js' = [js EXCEPT !.pc = "idle", !.total = 0]
    /\ st' = [s \in Searchers |->
                IF st[s].pc = "idle" THEN st[s]
                ELSE [IdleSt EXCEPT !.resp = [NoResult EXCEPT !.kind = "crashed", !.at = st[s].pc]]]
    /\ lock' = "none"
    /\ UNCHANGED <<objects, datasets, writes>>

\* ------------------------------------------------------ history observers
\* A series is a run of process_batch(b) calls with the same b, each returning
\* normally, with no upload in between: N objects were pending when it began
\* and i of its calls have returned.
SeriesCount(b) ==
    LET remaining == CountPending(objects)
        returns == IF remaining = 0 THEN 1 ELSE 0
    IN /\ (run.active /\ run.b = b) => run.i < MaxCalls
       /\ run' = IF run.active /\ run.b = b
                 THEN [run EXCEPT !.i = run.i + returns]
                 ELSE [active |-> TRUE, N |-> remaining, b |-> b, i |-> returns]
       /\ before' = objects
       /\ UNCHANGED rest

SeriesReturn ==
    /\ run' = IF run.active THEN [run EXCEPT !.i = run.i + 1] ELSE run
    /\ UNCHANGED <<before, rest>>

SeriesBreak == run' = NoRun /\ UNCHANGED <<before, rest>>

SeriesSame == UNCHANGED <<run, before, rest>>

\* ---------------------------------------------------------- specifications
\* Requests arrive one after another: a handler takes a step only when no
\* other is in flight, so no statement ever finds the write lock taken.  The
\* process may crash at any statement.
NextSeq ==
    \/ /\ proc["w1"].pc = "idle"
       /\ \E name \in Names, t \in Times, file \in Files : register_dataset(name, t, file)
       /\ SeriesSame
    \/ /\ proc["w1"].pc = "idle"
       /\ \E name \in Names, t \in Times : register_dataset_conflict(name, t)
       /\ SeriesSame
    \/ upload_dataset_insert /\ SeriesSame
    \/ upload_dataset_commit /\ SeriesBreak
    \/ \E b \in BatchSizes : up.pc = "idle" /\ process_batch_count("w1", b) /\ SeriesCount(b)
    \/ process_batch_select("w1") /\ SeriesSame
    \/ (\E d \in ModelDims : process_batch_embed("w1", d)) /\ SeriesSame
    \/ process_batch_embed_fail("w1") /\ SeriesBreak
    \/ process_batch_update("w1") /\ SeriesSame
    \/ process_batch_commit("w1") /\ SeriesSame
    \/ process_batch_total("w1") /\ SeriesSame
    \/ process_batch_return("w1") /\ SeriesReturn
    \/ Crash /\ SeriesBreak

SpecSeq == Init /\ [][NextSeq]_vars

\* Files whose rows all lack an id (ids fall back to the row's position).
BlankFiles == {[k \in 1..n |-> RowBlank] : n \in FileLengths \ {0}}

\* Two process_batch handlers and an upload overlap, statement by statement in
\* any interleaving.
Next ==
    \/ /\ \E name \in Names, t \in Times, file \in BlankFiles : register_dataset(name, t, file)
       /\ SeriesSame
    \/ (\E name \in Names, t \in Times : register_dataset_conflict(name, t)) /\ SeriesSame
    \/ upload_dataset_insert /\ SeriesSame
    \/ upload_dataset_busy /\ SeriesSame
    \/ upload_dataset_commit /\ SeriesSame
    \/ (\E w \in Workers, b \in BatchSizes : process_batch_count(w, b)) /\ SeriesSame
    \/ (\E w \in Workers : process_batch_select(w)) /\ SeriesSame
    \/ (\E w \in Workers : process_batch_embed(w, EMBEDDING_DIM)) /\ SeriesSame
    \/ (\E w \in Workers : process_batch_embed_fail(w)) /\ SeriesSame
    \/ (\E w \in Workers : process_batch_update(w)) /\ SeriesSame
    \/ (\E w \in Workers : process_batch_busy(w)) /\ SeriesSame
    \/ (\E w \in Workers : process_batch_commit(w)) /\ SeriesSame
    \/ (\E w \in Workers : process_batch_total(w)) /\ SeriesSame
    \/ (\E w \in Workers : process_batch_return(w)) /\ SeriesSame

Spec == Init /\ [][Next]_vars

\* One process_batch handler and an upload, statement by statement.
NextWriters ==
    \/ /\ \E name \in Names, t \in Times, file \in BlankFiles : register_dataset(name, t, file)
       /\ SeriesSame
    \/ (\E name \in Names, t \in Times : register_dataset_conflict(name, t)) /\ SeriesSame
    \/ upload_dataset_insert /\ SeriesSame
    \/ upload_dataset_busy /\ SeriesSame
    \/ upload_dataset_commit /\ SeriesSame
    \/ (\E b \in BatchSizes : process_batch_count("w1", b)) /\ SeriesSame
    \/ process_batch_select("w1") /\ SeriesSame
    \/ process_batch_embed("w1", EMBEDDING_DIM) /\ SeriesSame
    \/ process_batch_embed_fail("w1") /\ SeriesSame
    \/ process_batch_update("w1") /\ SeriesSame
    \/ process_batch_busy("w1") /\ SeriesSame
    \/ process_batch_commit("w1") /\ SeriesSame
    \/ process_batch_total("w1") /\ SeriesSame
    \/ process_batch_return("w1") /\ SeriesSame

\* The writers run while search_text reads on its own connection.
NextSearch ==
    \/ NextWriters
    \/ /\ \E dataset_id \in DatasetIds \cup {None}, images_only \in BOOLEAN :
             search_text_begin("s1", <<"a">>, 1, dataset_id, images_only)
       /\ SeriesSame
    \/ search_text_select("s1") /\ SeriesSame
    \/ search_text_stack("s1") /\ SeriesSame
    \/ search_text_embed_fail("s1") /\ SeriesSame
    \/ search_text_return("s1", EMBEDDING_DIM) /\ SeriesSame

SpecSearch == Init /\ [][NextSearch]_vars

\* The writers run while job_status reads on its own connection.
NextStatus ==
    \/ NextWriters
    \/ job_status_total /\ SeriesSame
    \/ job_status_return /\ SeriesSame

SpecStatus == Init /\ [][NextStatus]_vars

\* The GET in flight ends one way or another: requests.get returns or raises
\* (its timeout t bounds the wait for the server) and time.sleep returns.
api_get_request ==
    \/ api_get_return
    \/ \E e \in Retryable : api_get_retry(e)
    \/ api_get_http_error
    \/ api_get_uncaught

\* The frontend calls api_get again and again; how each GET ends is the
\* network's and the server's choice.
NextApi ==
    \/ /\ \E path \in Paths, timeout \in Timeouts, retries \in Retries :
             api_get(path, timeout, retries)
       /\ UNCHANGED <<run, before>>
    \/ api_get_return /\ UNCHANGED <<run, before>>
    \/ (\E e \in Retryable : api_get_retry(e)) /\ UNCHANGED <<run, before>>
    \/ api_get_http_error /\ UNCHANGED <<run, before>>
    \/ api_get_uncaught /\ UNCHANGED <<run, before>>

SpecApi ==
    Init /\ [][NextApi]_vars /\ WF_vars(api_get_request /\ UNCHANGED <<run, before>>)

\* Files of rows with a title and an image, and of blank rows.
QueryFiles == UNION {[1..n -> {RowTitled, RowBlank}] : n \in FileLengths}

\* Requests arrive one after another, search_text among them; the model may
\* answer with either width.
NextQuery ==
    \/ /\ AllIdle
       /\ \E name \in Names, t \in Times, file \in QueryFiles : register_dataset(name, t, file)
       /\ SeriesSame
    \/ /\ AllIdle
       /\ \E name \in Names, t \in Times : register_dataset_conflict(name, t)
       /\ SeriesSame
    \/ upload_dataset_insert /\ SeriesSame
    \/ upload_dataset_commit /\ SeriesSame
    \/ AllIdle /\ (\E b \in BatchSizes : process_batch_count("w1", b)) /\ SeriesSame
    \/ process_batch_select("w1") /\ SeriesSame
    \/ (\E d \in ModelDims : process_batch_embed("w1", d)) /\ SeriesSame
    \/ process_batch_embed_fail("w1") /\ SeriesSame
    \/ process_batch_update("w1") /\ SeriesSame
    \/ process_batch_commit("w1") /\ SeriesSame
    \/ process_batch_total("w1") /\ SeriesSame
    \/ process_batch_return("w1") /\ SeriesSame
    \/ /\ AllIdle
       /\ \E q \in Queries, limit \in Limits : search_text_invalid("s1", q, limit)
       /\ SeriesSame
    \/ /\ AllIdle
       /\ \E q \in Queries, limit \in Limits, dataset_id \in DatasetIds \cup {None},
             images_only \in BOOLEAN :
             search_text_begin("s1", q, limit, dataset_id, images_only)
       /\ SeriesSame
    \/ search_text_select("s1") /\ SeriesSame
    \/ search_text_stack("s1") /\ SeriesSame
    \/ search_text_stack_fail("s1") /\ SeriesSame
    \/ search_text_embed_fail("s1") /\ SeriesSame
    \/ (\E d \in ModelDims : search_text_score_fail("s1", d)) /\ SeriesSame
    \/ (\E d \in ModelDims : search_text_return("s1", d)) /\ SeriesSame

SpecQuery == Init /\ [][NextQuery]_vars

\* A dataset name and an original id that contain the "__" build_object_uid
\* joins with: DatasetId of the second name at time 1 is a_1__7_1.
IngestNames == {<<"a">>, <<"a", "_", "1", "_", "_", "7">>}

RowJoined ==
    [ObjectID |-> <<"7", "_", "1", "_", "_", "7">>, Title |-> <<"a">>, Notes |-> <<>>,
     ImageURL |-> <<>>]

IngestFiles == UNION {[1..n -> {RowTitled, RowJoined, RowBlank}] : n \in FileLengths}

\* Uploads alone, one after another.
NextIngest ==
    \/ /\ \E name \in IngestNames, t \in Times, file \in IngestFiles :
             register_dataset(name, t, file)
       /\ SeriesSame
    \/ (\E name \in IngestNames, t \in Times : register_dataset_conflict(name, t)) /\ SeriesSame
    \/ upload_dataset_insert /\ SeriesSame
    \/ upload_dataset_commit /\ SeriesSame

SpecIngest == Init /\ [][NextIngest]_vars

\* One-row files whose record ids make the object_uid of a row of one
\* dataset equal to that of a row of the other.
FrameFiles == [1..1 -> {RowTitled, RowJoined}]

\* No reading handler is in flight.
ReadersIdle == js.pc = "idle" /\ \A s \in Searchers : st[s].pc = "idle"

\* Every endpoint of the service: an upload and a process_batch overlap
\* statement by statement; job_status, search_text, all_datasets and
\* all_objects are served between them.
NextFrame ==
    \/ /\ ReadersIdle
       /\ \E name \in IngestNames, t \in Times, file \in FrameFiles :
             register_dataset(name, t, file)
       /\ SeriesSame
    \/ /\ ReadersIdle
       /\ \E name \in IngestNames, t \in Times : register_dataset_conflict(name, t)
       /\ SeriesSame
    \/ upload_dataset_insert /\ SeriesSame
    \/ upload_dataset_busy /\ SeriesSame
    \/ upload_dataset_commit /\ SeriesSame
    \/ ReadersIdle /\ (\E b \in BatchSizes : process_batch_count("w1", b)) /\ SeriesSame
    \/ process_batch_select("w1") /\ SeriesSame
    \/ process_batch_embed("w1", EMBEDDING_DIM) /\ SeriesSame
    \/ process_batch_embed_fail("w1") /\ SeriesSame
    \/ process_batch_update("w1") /\ SeriesSame
    \/ process_batch_busy("w1") /\ SeriesSame
    \/ process_batch_commit("w1") /\ SeriesSame
    \/ process_batch_total("w1") /\ SeriesSame
    \/ process_batch_return("w1") /\ SeriesSame
    \/ AllIdle /\ job_status_total /\ SeriesSame
    \/ job_status_return /\ SeriesSame
    \/ AllIdle /\ search_text_begin("s1", <<"a">>, 1, None, FALSE) /\ SeriesSame
    \/ search_text_select("s1") /\ SeriesSame
    \/ search_text_stack("s1") /\ SeriesSame
    \/ search_text_embed_fail("s1") /\ SeriesSame
    \/ search_text_return("s1", EMBEDDING_DIM) /\ SeriesSame
    \/ AllIdle /\ all_datasets /\ UNCHANGED <<run, before>>
    \/ /\ AllIdle
       /\ \E dataset_id \in DatasetIds \cup {None}, limit \in {-1, 1} :
             all_objects(dataset_id, limit)
       /\ UNCHANGED <<run, before>>

SpecFrame == Init /\ [][NextFrame]_vars

\* The writers run while two search_text handlers read the whole store, each
\* on its own connection.
NextRebuild ==
    \/ NextWriters
    \/ (\E s \in Searchers : search_text_begin(s, <<"a">>, 1, None, FALSE)) /\ SeriesSame
    \/ (\E s \in Searchers : search_text_select(s)) /\ SeriesSame
    \/ (\E s \in Searchers : search_text_stack(s)) /\ SeriesSame
    \/ (\E s \in Searchers : search_text_embed_fail(s)) /\ SeriesSame
    \/ (\E s \in Searchers : search_text_return(s, EMBEDDING_DIM)) /\ SeriesSame

SpecRebuild == Init /\ [][NextRebuild]_vars

\* batch_size is declared `int = 128` with no lower bound: zero and negative
\* values reach the handler.
AnyBatchSizes == -1..MaxBatch

\* Requests arrive one after another, process_batch with any batch_size.
NextBatch ==
    \/ /\ AllIdle
       /\ \E name \in Names, t \in Times, file \in Files : register_dataset(name, t, file)
       /\ SeriesSame
    \/ /\ AllIdle
       /\ \E name \in Names, t \in Times : register_dataset_conflict(name, t)
       /\ SeriesSame
    \/ upload_dataset_insert /\ SeriesSame
    \/ upload_dataset_commit /\ SeriesSame
    \/ AllIdle /\ (\E b \in AnyBatchSizes : process_batch_count("w1", b)) /\ SeriesSame
    \/ process_batch_select("w1") /\ SeriesSame
    \/ (\E d \in ModelDims : process_batch_embed("w1", d)) /\ SeriesSame
    \/ process_batch_embed_fail("w1") /\ SeriesSame
    \/ process_batch_update("w1") /\ SeriesSame
    \/ process_batch_commit("w1") /\ SeriesSame
    \/ process_batch_total("w1") /\ SeriesSame
    \/ process_batch_return("w1") /\ SeriesSame

SpecBatch == Init /\ [][NextBatch]_vars

\* A request handler that has started runs on: each statement it has reached
\* is eventually executed.  process_batch is invoked again whenever a caller
\* is free, and of the model calls made again and again some succeed.
Fairness ==
    /\ WF_vars((upload_dataset_insert \/ upload_dataset_busy) /\ SeriesSame)
    /\ WF_vars(upload_dataset_commit /\ SeriesSame)
    /\ WF_vars((\E w \in Workers, b \in BatchSizes : process_batch_count(w, b)) /\ SeriesSame)
    /\ SF_vars((\E w \in Workers : process_batch_embed(w, EMBEDDING_DIM)) /\ SeriesSame)
    /\ \A w \in Workers :
          /\ WF_vars(process_batch_select(w) /\ SeriesSame)
          /\ WF_vars((process_batch_embed(w, EMBEDDING_DIM) \/ process_batch_embed_fail(w))
                      /\ SeriesSame)
          /\ WF_vars((process_batch_update(w) \/ process_batch_busy(w)) /\ SeriesSame)
          /\ WF_vars(process_batch_commit(w) /\ SeriesSame)
          /\ WF_vars(process_batch_total(w) /\ SeriesSame)
          /\ WF_vars(process_batch_return(w) /\ SeriesSame)

\* Files of one to MaxObjects rows that all lack an id.
LiveFiles == {[k \in 1..n |-> RowBlank] : n \in 1..MaxObjects}

\* Two callers of process_batch overlap with each other and with the upload
\* of one dataset (nothing is pending before its rows are committed, so its
\* INSERT never finds the write lock taken).
NextLive ==
    \/ /\ \E t \in Times, file \in LiveFiles : register_dataset(<<"a">>, t, file)
       /\ SeriesSame
    \/ (\E t \in Times : register_dataset_conflict(<<"a">>, t)) /\ SeriesSame
    \/ upload_dataset_insert /\ SeriesSame
    \/ upload_dataset_commit /\ SeriesSame
    \/ (\E w \in Workers, b \in BatchSizes : process_batch_count(w, b)) /\ SeriesSame
    \/ (\E w \in Workers : process_batch_select(w)) /\ SeriesSame
    \/ (\E w \in Workers : process_batch_embed(w, EMBEDDING_DIM)) /\ SeriesSame
    \/ (\E w \in Workers : process_batch_embed_fail(w)) /\ SeriesSame
    \/ (\E w \in Workers : process_batch_update(w)) /\ SeriesSame
    \/ (\E w \in Workers : process_batch_busy(w)) /\ SeriesSame
    \/ (\E w \in Workers : process_batch_commit(w)) /\ SeriesSame
    \/ (\E w \in Workers : process_batch_total(w)) /\ SeriesSame
    \/ (\E w \in Workers : process_batch_return(w)) /\ SeriesSame

\* The scheduling a running server provides.
SpecLive == Init /\ [][NextLive]_vars /\ Fairness

\* ------------------------------------------------------------------ properties
\* The handlers whose UPDATE of the object's embedding has committed.
Writers(id) == {writes[id][k] : k \in 1..Len(writes[id])}

RECURSIVE LStrip(_)
LStrip(s) == IF s # <<>> /\ Head(s) = " " THEN LStrip(Tail(s)) ELSE s

RECURSIVE RStrip(_)
RStrip(s) ==
    IF s # <<>> /\ s[Len(s)] = " " THEN RStrip(SubSeq(s, 1, Len(s) - 1)) ELSE s

\* A text with its leading and trailing blanks removed.
Trim(s) == RStrip(LStrip(s))

\* C1 (SpecSeq): over sequential upload_dataset and process_batch calls every
\* object's embedding is written at most once: it is non-null exactly when one
\* UPDATE of it has committed, and once non-null it is never rewritten and
\* never returns to null.
C1_EmbeddedOnce ==
    [][\A id \in Ids(objects) :
          /\ Len(writes'[id]) <= 1
          /\ IsNull(objects'[id].embedding) <=> (writes'[id] = <<>>)
          /\ ~IsNull(objects[id].embedding) =>
                /\ objects'[id].embedding = objects[id].embedding
                /\ writes'[id] = writes[id]]_vars

\* Two datasets were uploaded, an object is embedded and two more calls have
\* returned since.
C1_Witness ==
    /\ Len(datasets) = 2
    /\ run.active /\ run.i >= 2
    /\ \E id \in Ids(objects) : ~IsNull(objects[id].embedding) /\ writes[id] = <<"w1">>

\* C2 (Spec): when two process_batch invocations overlap, no object has its
\* embedding written by both of them.
C2_NoDoubleEmbedding == \A id \in Ids(objects) : Cardinality(Writers(id)) <= 1

\* C3 (SpecSearch): what a search_text SELECT running beside process_batch
\* sees of one invocation's embedding writes is none of them or all of them.
C3_NoPartialBatchVisible ==
    \A s \in Searchers, w \in Workers : st[s].seen[w].landed \in {{}, st[s].seen[w].batch}

\* The reader ran while the invocation was inside its UPDATE loop over two
\* rows, and saw none of them.
C3_Witness ==
    /\ proc["w1"].pc = "update" /\ Len(proc["w1"].tx) = 1
    /\ Cardinality(st["s1"].seen["w1"].batch) = 2
    /\ st["s1"].seen["w1"].landed = {}

\* C4 (SpecStatus): every job_status response has embedded + remaining = total,
\* also when uploads and process_batch commits land between its two COUNTs.
C4_StatusAddsUp ==
    js.resp.kind = "ok" => js.resp.embedded + js.resp.remaining = js.resp.total

\* A response whose two COUNTs straddle an upload's commit.
C4_Witness == js.resp.kind = "ok" /\ js.resp.remaining > js.resp.total

\* C5 (SpecSeq): in a series of process_batch(b) calls that began with N
\* pending objects, the i-th call returns embedded_this_batch =
\* min(b, pending before it), remaining = max(0, N - i*b), and done exactly
\* when that remaining is 0.
C5_BatchArithmetic ==
    (run.active /\ run.i >= 1) =>
        LET r == proc["w1"].resp
        IN /\ r.kind = "ok"
           /\ r.embedded_this_batch = Min(run.b, Max(0, run.N - (run.i - 1) * run.b))
           /\ r.remaining = Max(0, run.N - run.i * run.b)
           /\ r.done <=> (r.remaining = 0)

\* Three pending objects drained by two calls of size two: the second embeds
\* the one left and reports done.
C5_Witness ==
    /\ run.active /\ run.N = 3 /\ run.b = 2 /\ run.i = 2
    /\ proc["w1"].resp.embedded_this_batch = 1
    /\ proc["w1"].resp.done

\* C6 (SpecSeq): process_batch called when nothing is pending returns
\* remaining = 0, embedded_this_batch = 0, done = true at once and leaves the
\* store as it was, however often it is called.
C6_IdempotentWhenDrained ==
    [][\A w \in Workers, b \in BatchSizes :
          (CountPending(objects) = 0 /\ process_batch_count(w, b)) =>
              /\ proc'[w].pc = "idle"
              /\ proc'[w].resp.kind = "ok"
              /\ proc'[w].resp.embedded_this_batch = 0
              /\ proc'[w].resp.remaining = 0
              /\ proc'[w].resp.done
              /\ <<objects, datasets, writes>>' = <<objects, datasets, writes>>]_vars

\* Every object is embedded and the call was made twice in a row.
C6_Witness ==
    /\ Len(objects) >= 1
    /\ run.active /\ run.N = 0 /\ run.i >= 2
    /\ proc["w1"].resp.at = "count"

\* C7 (SpecSeq): when the embedding-model call fails the invocation has
\* written nothing: the store, the pending count and the total are what they
\* were when it began, and the batch SELECT of a following call with the same
\* batch_size returns the same objects (with another batch_size, the same
\* objects up to the smaller of the two sizes).
C7_ModelFailureWritesNothing ==
    [][\A w \in Workers :
          process_batch_embed_fail(w) =>
              /\ objects' = before
              /\ writes' = writes
              /\ CountPending(objects') = proc[w].remaining
              /\ CountAll(objects') = CountAll(before)
              /\ Limit(PendingIds(objects'), proc[w].batch_size)
                   = [k \in 1..Len(proc[w].rows) |-> proc[w].rows[k].id]
              /\ \A b \in BatchSizes :
                    Limit(PendingIds(objects'), Min(b, proc[w].batch_size))
                      = Limit([k \in 1..Len(proc[w].rows) |-> proc[w].rows[k].id], b)]_vars

\* After a failed call the next one has selected its batch.
C7_Witness ==
    /\ proc["w1"].resp.kind = "error" /\ proc["w1"].resp.at = "embed"
    /\ proc["w1"].pc = "embed" /\ Len(proc["w1"].rows) >= 1

\* C8 (SpecSeq): when the process crashes while a process_batch invocation is
\* at any statement before its commit, the store a restart finds is the store
\* from before the invocation began, and nothing of the invocation survives
\* in memory.
C8_CrashBeforeCommit ==
    [][Crash =>
          \A w \in Workers :
              proc[w].pc \in {"select", "embed", "update"} =>
                  /\ objects' = before
                  /\ writes' = writes
                  /\ lock' = "none"
                  /\ proc'[w] = Abort("crashed", proc[w].pc)]_vars

\* The crash came inside the UPDATE loop.
C8_Witness ==
    /\ proc["w1"].resp.kind = "crashed" /\ proc["w1"].resp.at = "update"
    /\ CountPending(objects) >= 2

\* C9 (SpecSeq): an object whose canonical text is empty after trimming is
\* never given an embedding.
C9_EmptyTextStaysPending ==
    \A id \in Ids(objects) :
        Trim(build_object_text(objects[id].raw_metadata)) = <<>> =>
            IsNull(objects[id].embedding)

\* C10 (SpecSeq): every non-null embedding in the store has dimension
\* EMBEDDING_DIM, whatever width the model returned.
C10_DimensionIsFixed ==
    \A id \in Ids(objects) :
        ~IsNull(objects[id].embedding) => objects[id].embedding.dim = EMBEDDING_DIM

\* C11 (SpecQuery): a search_text request whose query is empty after trimming
\* whitespace ends with the invalid-query error and never runs its SELECT:
\* no such request gets past the check of q, and its response is "invalid"
\* with nothing read.
C11_BlankQueryRejected ==
    \A s \in Searchers :
        /\ st[s].pc # "idle" => Trim(st[s].q) # <<>>
        /\ (st[s].resp.kind # "none" /\ Trim(st[s].resp.q) = <<>>) =>
              (st[s].resp.kind = "invalid" /\ ~st[s].resp.read)

\* C12 (SpecQuery): a search_text request with limit k over a scope of n
\* embedded objects returns exactly min(k, n) results when k >= 1 and an
\* empty list when k <= 0, a negative k included.
C12_LimitClamps ==
    \A s \in Searchers :
        st[s].resp.kind = "ok" =>
            Len(st[s].resp.results) =
                IF st[s].resp.limit >= 1
                THEN Min(st[s].resp.limit, Len(st[s].resp.scored))
                ELSE 0

\* The scored rows ranked by score descending and, among equal scores, by
\* insertion order (row id) ascending.
RankedByScoreThenId(scored) ==
    LET p == CHOOSE q \in Argsorts(scored) :
                 \A i, j \in 1..Len(scored) :
                     (i < j /\ scored[q[i]].score = scored[q[j]].score) =>
                         scored[q[i]].id < scored[q[j]].id
    IN [k \in 1..Len(scored) |-> scored[p[k]]]

\* C13 (SpecQuery): the list search_text returns is the leading part of its
\* scope's embedded objects ranked by score descending and, among equal
\* scores, by insertion order ascending.
C13_RankedWithTieBreak ==
    \A s \in Searchers :
        st[s].resp.kind = "ok" =>
            st[s].resp.results =
                SubSeq(RankedByScoreThenId(st[s].resp.scored), 1, Len(st[s].resp.results))

\* The result lists search_text(q, limit, dataset_id, images_only) can return
\* over the store objs when the model answers.
SearchAnswers(objs, q, limit, dataset_id, images_only) ==
    LET ids == SetToSeq(ScopeIds(objs, dataset_id, images_only))
        rows == [k \in 1..Len(ids) |-> [id |-> ids[k], vec |-> objs[ids[k]].embedding]]
        scores == Scores(rows, embed_texts(<<q>>, EMBEDDING_DIM)[1])
    IN {[k \in 1..Len(Slice(p, limit)) |-> scores[Slice(p, limit)[k]]] : p \in Argsorts(scores)}

\* The rows of dataset B are the same before and after the step.
DatasetUntouched(B) ==
    /\ {i \in Ids(objects') : objects'[i].dataset_id = B}
         = {i \in Ids(objects) : objects[i].dataset_id = B}
    /\ \A i \in Ids(objects) : objects[i].dataset_id = B => objects'[i] = objects[i]

\* C14 (SpecQuery): a step that changes the objects table but no row of
\* dataset B (an upload into another dataset, a process_batch commit that
\* embeds only other datasets' objects) leaves what search_text can return
\* for dataset_id = B as it was, for every query, limit and image filter.
C14_ScopingIsolation ==
    [][\A B \in DatasetIds :
          (objects' # objects /\ DatasetUntouched(B)) =>
              \A q \in Queries \ {<<>>}, limit \in Limits, images_only \in BOOLEAN :
                  SearchAnswers(objects', q, limit, B, images_only)
                    = SearchAnswers(objects, q, limit, B, images_only)]_vars

\* A process_batch invocation has just committed embeddings of objects that
\* all lie outside a dataset which has embedded objects of its own.
C14_Witness ==
    /\ proc["w1"].pc = "total" /\ proc["w1"].landed # {}
    /\ \E B \in DatasetIds :
          /\ \A id \in proc["w1"].landed : objects[id].dataset_id # B
          /\ ScopeIds(objects, B, FALSE) # {}

\* The (dataset, original id) pairs of a sequence of object rows.
Pairings(objs) == {<<objs[i].dataset_id, objs[i].original_id>> : i \in 1..Len(objs)}

\* C15 (SpecIngest): no two stored objects share an object_uid, and no
\* ingested record is dropped in favour of a record with another (dataset,
\* original id) pair: once the rows of an upload are inserted, the pair of
\* every row of the file is in the table or in the upload's transaction.
C15_IdentityIsInjective ==
    /\ \A i, j \in Ids(objects) : i # j => objects[i].object_uid # objects[j].object_uid
    /\ up.pc = "commit" =>
          \A k \in 1..Len(up.file) :
              <<up.dataset_id, OriginalId(up.file[k], k)>> \in Pairings(objects) \cup Pairings(up.tx)

\* C16 (SpecQuery): a search_text request with a non-empty query and limit >= 1
\* answers with an empty list exactly when no object of its scope is embedded,
\* and when the scope is non-empty and the model call for the query fails it
\* answers with an error, never with a list.
C16_EmptyIsNotFailure ==
    [][\A s \in Searchers :
          /\ (st[s].pc # "idle" /\ st'[s].resp.kind = "ok" /\ st[s].limit >= 1) =>
                (st'[s].resp.results = <<>>
                    <=> ScopeIds(objects, st[s].dataset_id, st[s].images_only) = {})
          /\ search_text_embed_fail(s) =>
                /\ ScopeIds(objects, st[s].dataset_id, st[s].images_only) # {}
                /\ st'[s].resp.kind = "error"
                /\ st'[s].resp.results = <<>>]_vars

\* The model call failed for a search over a dataset with an embedded object.
C16_Witness ==
    /\ st["s1"].resp.kind = "error" /\ st["s1"].resp.at = "embed"
    /\ st["s1"].resp.limit >= 1
    /\ \E id \in Ids(objects) : ~IsNull(objects[id].embedding)

\* The ids of the rows a search_text handler holds.
RowsOf(rows) == {rows[k].id : k \in 1..Len(rows)}

\* C17 (SpecSearch): the rows search_text scores are exactly the objects that,
\* in the store at the time of its SELECT, have a non-null embedding and match
\* the dataset scope and the image filter: every object of the scope that was
\* embedded when the handler was entered is among them, no pending object is,
\* and the scores returned are computed for these rows.
C17_ProjectionIsCurrent ==
    [][\A s \in Searchers :
          /\ search_text_select(s) =>
                LET read == IF st'[s].pc = "stack" THEN RowsOf(st'[s].rows) ELSE {}
                IN /\ read = {i \in Ids(objects) :
                                /\ ~IsNull(objects[i].embedding)
                                /\ (Truthy(st[s].dataset_id) =>
                                        objects[i].dataset_id = st[s].dataset_id)
                                /\ (st[s].images_only => objects[i].has_image = 1)}
                   /\ st[s].start \subseteq read
                   /\ \A id \in read : st'[s].rows[CHOOSE k \in 1..Len(st'[s].rows) :
                                            st'[s].rows[k].id = id].vec = objects[id].embedding
          /\ (st[s].pc = "embed" /\ st'[s].resp.kind = "ok") =>
                RowsOf(st'[s].resp.scored) = RowsOf(st[s].rows)]_vars

\* An embedding committed between the handler's entry and its SELECT is among
\* the rows read.
C17_Witness ==
    /\ st["s1"].pc = "stack"
    /\ RowsOf(st["s1"].rows) # st["s1"].start
    /\ st["s1"].start # {}

\* C18 (SpecRebuild): for one key (dataset scope, image filter) at most one
\* search_text handler at a time is between its scan of the store and the end
\* of stacking the vectors it fetched.
C18_OneRebuildPerKey ==
    \A s, t \in Searchers :
        (/\ s # t
         /\ st[s].pc = "stack" /\ st[t].pc = "stack"
         /\ st[s].dataset_id = st[t].dataset_id
         /\ st[s].images_only = st[t].images_only) => FALSE

\* C19 (SpecBatch): for every batch_size the endpoint accepts, zero and
\* negative values included, the batch a process_batch call selects has at
\* most batch_size objects (none when batch_size <= 0), and they are the
\* pending objects with the lowest ids: no pending object left out has a
\* lower id than a selected one.
C19_BatchIsBounded ==
    \A w \in Workers :
        proc[w].pc = "embed" =>
            /\ Len(proc[w].rows) <= Max(0, proc[w].batch_size)
            /\ \A id \in Ids(objects), k \in 1..Len(proc[w].rows) :
                  (IsNull(objects[id].embedding) /\ id \notin RowIds(proc[w].rows)) =>
                      id > proc[w].rows[k].id

\* A process_batch call has answered done = true with remaining = 0.
AnsweredDone ==
    \E w \in Workers :
        /\ proc[w].resp.kind = "ok" /\ proc[w].resp.done /\ proc[w].resp.remaining = 0

\* C20 (SpecLive): when process_batch is invoked again and again with
\* batch_size >= 1 by one or two callers, the model call succeeds again and
\* again, and from some point on no object is added, then eventually every
\* object is embedded for good and calls answering done = true with
\* remaining = 0 keep coming.
C20_EventuallyDrained ==
    <>[][Len(objects') = Len(objects)]_objects =>
        (<>[](CountPending(objects) = 0) /\ []<>AnsweredDone)

\* Both callers were at work on three objects: one found the write lock taken
\* and failed, the other has answered done with everything embedded.
C20_Witness ==
    /\ Len(objects) = 3 /\ CountPending(objects) = 0
    /\ \E w, v \in Workers :
          /\ proc[w].resp.kind = "ok" /\ proc[w].resp.done /\ proc[w].resp.at = "return"
          /\ proc[v].resp.kind = "error" /\ proc[v].resp.at = "update"

\* C21 (SpecStatus): every job_status response reports 0 <= embedded <= total,
\* 0 <= remaining <= total and 0 <= percent <= 100, and its embedded is the
\* number of embedded objects of one store state of the call; the store at
\* the second COUNT is the last of them, so embedded never exceeds the number
\* of embedded objects the store holds when the response is built. This also
\* holds when an upload_dataset or process_batch commit lands between the
\* two COUNT queries.
C21_StatusInRange ==
    [][job_status_return =>
         LET r == js'.resp
         IN /\ 0 <= r.embedded /\ r.embedded <= r.total
            /\ 0 <= r.remaining /\ r.remaining <= r.total
            /\ 0 <= r.percent /\ r.percent <= 100
            /\ r.embedded <= CountAll(objects) - CountPending(objects)]_vars

\* The objects whose embedding went from NULL to a vector by the invocation
\* of worker w that is about to answer: the rows its commit wrote, when no
\* other invocation's commit had written them before.
EmbeddedBy(w) == {id \in proc[w].landed : Head(writes[id]) = w}

\* C22 (Spec): in every process_batch response, embedded_this_batch is the
\* number of objects whose embedding went from NULL to a vector because of
\* that invocation, so that the sum of embedded_this_batch over all completed
\* invocations, sequential or overlapping, is the number of embedded objects.
C22_CountsOwnEmbeddings ==
    [][\A w \in Workers :
         process_batch_return(w) =>
             proc'[w].resp.embedded_this_batch = Cardinality(EmbeddedBy(w))]_vars

\* C23 (SpecSeq): the total of every process_batch response is the number of
\* objects in the store at that moment, the value job_status reports as its
\* total, also in the response returned when nothing is pending; and done is
\* true exactly when the reported remaining is 0.
C23_TotalIsStoreSize ==
    [][(\/ process_batch_return("w1")
        \/ \E b \in BatchSizes : process_batch_count("w1", b) /\ proc'["w1"].pc = "idle")
         => LET r == proc'["w1"].resp
            IN /\ r.total = CountAll(objects')
               /\ r.done <=> (r.remaining = 0)]_vars

\* The object rows stored for a dataset.
StoredFor(objs, dataset_id) == {id \in Ids(objs) : objs[id].dataset_id = dataset_id}

\* C24 (SpecSeq): when upload_dataset completes, the num_objects it returns
\* and the num_objects stored on the dataset are the number of object rows
\* stored for that dataset, for every file, also with repeated record ids
\* and with rows whose id falls back to their ordinal position.
C24_NumObjectsIsStored ==
    [][upload_dataset_commit =>
         LET n == Cardinality(StoredFor(objects', up.dataset_id))
         IN /\ up.num_objects = n
            /\ \A i \in 1..Len(datasets') :
                 datasets'[i].dataset_id = up.dataset_id => datasets'[i].num_objects = n]_vars

\* Two object rows that differ at most in their embedding.
SameButEmbedding(o, p) == [o EXCEPT !.embedding = NULL] = [p EXCEPT !.embedding = NULL]

\* C25 (SpecFrame): only process_batch writes embeddings.  No step removes an
\* object or changes the identity or metadata of one; an object appears only
\* when upload_dataset commits, with a NULL embedding, and that commit leaves
\* every object that already exists as it is; an embedding changes only when
\* process_batch commits, on an object of the batch it selected, and
\* process_batch changes nothing else in the store; the steps of job_status,
\* search_text, all_datasets and all_objects leave objects and datasets
\* unchanged.
C25_OnlyBatchEmbeds ==
    [][/\ Len(objects') >= Len(objects)
       /\ \A id \in Ids(objects) : SameButEmbedding(objects'[id], objects[id])
       /\ \A id \in Ids(objects') \ Ids(objects) :
            upload_dataset_commit /\ IsNull(objects'[id].embedding)
       /\ up' # up => \A id \in Ids(objects) : objects'[id] = objects[id]
       /\ \A id \in Ids(objects) :
            objects'[id].embedding # objects[id].embedding =>
                \E w \in Workers : process_batch_commit(w) /\ id \in RowIds(proc[w].rows)
       /\ proc' # proc => Len(objects') = Len(objects) /\ datasets' = datasets
       /\ (js' # js \/ st' # st \/ ls' # ls) => objects' = objects /\ datasets' = datasets]_vars

\* Every endpoint has answered: the second upload's row met an object with
\* its object_uid and was ignored, that object carries an embedding written
\* by process_batch, and the readers have answered.
C25_Witness ==
    /\ Len(datasets) = 2 /\ datasets[2].num_objects = 1
    /\ up.pc = "idle" /\ Len(objects) = 1
    /\ ~IsNull(objects[1].embedding) /\ writes[1] = <<"w1">>
    /\ js.resp.kind = "ok" /\ st["s1"].resp.kind = "ok"
    /\ ls.kind = "objects" /\ Len(ls.rows) = 1

\* What holds of an api_get call at every moment: it has sent at most
\* retries + 1 GETs; every GET but the last ended in a read timeout or a
\* connection error, so the first success is returned and an HTTP error
\* status is raised at once, with no further GET; before the k-th retry it
\* waited backoff * 2^(k-1); and when it has ended after a GET, it returned
\* or raised what the last GET gave, a read timeout or connection error only
\* after retries + 1 GETs.
ApiCallInOrder ==
    /\ Len(api.log) <= api.retries + 1
    /\ \A k \in 1..(Len(api.log) - 1) : api.log[k] \in Retryable
    /\ Len(api.slept) = IF api.pc = "request" THEN Len(api.log) ELSE Max(0, Len(api.log) - 1)
    /\ \A k \in 1..Len(api.slept) : api.slept[k] = BackoffTenths * 2^(k - 1)
    /\ (api.pc = "idle" /\ api.log # <<>>) =>
          LET last == api.log[Len(api.log)]
          IN /\ api.out = last
             /\ last \in Retryable => Len(api.log) = api.retries + 1

\* C26 (SpecApi): api_get(path, retries = r) makes at most r + 1 requests and
\* always terminates: it returns the first successful response, retries only
\* after a read timeout or connection error, waiting backoff * 2^attempt
\* between attempts, re-raises that error after the (r+1)-th failed attempt,
\* and raises an HTTP error status immediately without any retry.
C26_BoundedRetries ==
    /\ []ApiCallInOrder
    /\ (api.pc = "request") ~> (api.pc = "idle")

\* A call with retries = 2 whose three GETs all failed: two waits, then the
\* last error re-raised.
C26_Witness ==
    /\ api.pc = "idle" /\ api.retries = 2
    /\ api.log = <<"ConnectionError", "ReadTimeout", "ReadTimeout">>
    /\ api.slept = <<BackoffTenths, 2 * BackoffTenths>>
    /\ api.out = "ReadTimeout"

====
